---------------------------- MODULE Spec2Model ----------------------------
(***************************************************************************)
(* State-machine model of the LinkedIn "open to work" scraper:             *)
(*   - LinkedInScraper session life cycle (start / close, context manager) *)
(*   - the login gate (is_logged_in / wait_for_login)                      *)
(*   - the traversal generator scrape_search_results, driven by main's     *)
(*     for loop, with the card classifier and the card parser as           *)
(*     operators over a small DOM model.                                   *)
(* Texts (names, locations, URLs) are sequences of one-character strings.  *)
(***************************************************************************)
EXTENDS Integers, Sequences, FiniteSets, TLC

VARIABLES
    pc,              \* position of main / of the generator
    cfg,             \* arguments of scrape_search_results, as main passes them
    playwright,      \* LinkedInScraper.playwright
    browser,         \* LinkedInScraper.browser
    context,         \* LinkedInScraper.context
    page,            \* LinkedInScraper.page
    action_count,    \* LinkedInScraper.action_count
    res,             \* the automation resources themselves: none / open / closed
    collected_count, \* locals of scrape_search_results
    total_scraped,
    seen_urls,
    page_num,
    card_count,
    i,
    nth_card,        \* cards.nth(i) of the last card the loop looked at: None or <<card>>
    verdict,         \* what the card loop did with that card
    elapsed,         \* wait_for_login: elapsed time at the current poll, in ticks
    logged,          \* what the last is_logged_in() of the login gate returned
    call,            \* a library function called on its own: its name and argument
    ret,             \* what that call returned: <<>> while it has not returned
    profiles,        \* main's list of the records the generator yielded
    hist             \* history of the run (what was called, how the block was left)

vars == <<pc, cfg, playwright, browser, context, page, action_count, res,
          collected_count, total_scraped, seen_urls, page_num, card_count, i,
          nth_card, verdict, elapsed, logged, call, ret, profiles, hist>>

-----------------------------------------------------------------------------
(* Bounds of the model *)

MaxRequested == 3       \* largest --max the user asks for (main caps it at the ceiling)
MaxCards == 3           \* largest number of cards on one results page
MaxPageNum == 2         \* page_num is counted up to this value; larger values are lumped with it
MaxActionCount == 4     \* action_count is counted up to this value; larger values are lumped with it
LoginTimeout == 2       \* wait_for_login's timeout, in ticks
MaxTick == 2            \* largest time step between two login polls, in ticks
MaxCloseCalls == 2      \* close() is called at most this many times
MAX_PROFILES_PER_SESSION == 2   \* config.MAX_PROFILES_PER_SESSION (env, default 500)
LONG_PAUSE_INTERVAL == 2        \* config.LONG_PAUSE_INTERVAL (env, default 50)
MaxImgs == 2            \* largest number of <img> elements in a card classified on its own
MaxSamples == 3         \* largest number of sampled points of a photo (36 in the code)
MaxNameTokens == 5      \* longest name given to parse_name, in tokens
MaxHeadlineTokens == 4  \* longest headline given to extract_company_from_headline, in tokens
MaxUrlLen == 4          \* longest href of a card parsed on its own, in characters
MaxNextSelectors == 2   \* "next" selectors of a pager paged on its own (8 in the code)
MaxLocationLen == 2     \* longest location given to the location test, in characters

\* Optional[ProfileData]: None is the empty sequence, a record r is <<r>>
None == <<>>
Some(x) == <<x>>

\* an attribute of the scraper that holds no handle
NoHandle == "None"

Min(a, b) == IF a < b THEN a ELSE b

\* the sequences over S of length at most n
SeqsUpTo(S, n) == UNION {[1..k -> S] : k \in 0..n}

\* How a call ends: it returns a value, or an exception leaves it
Returned(v) == [raised |-> FALSE, value |-> v]
Raised == [raised |-> TRUE, value |-> FALSE]

\* no library function is being called on its own
NoCall == [fn |-> "none", arg |-> <<>>]

-----------------------------------------------------------------------------
(* Text helpers: Python str operations on sequences of characters *)

RECURSIVE LStrip(_)
LStrip(s) == IF s = <<>> THEN s
             ELSE IF Head(s) = " " THEN LStrip(Tail(s)) ELSE s

RECURSIVE RStrip(_)
RStrip(s) == IF s = <<>> THEN s
             ELSE IF s[Len(s)] = " " THEN RStrip(SubSeq(s, 1, Len(s) - 1)) ELSE s

\* str.strip()
Strip(s) == RStrip(LStrip(s))

LowerChar(c) ==
    CASE c = "A" -> "a" [] c = "B" -> "b" [] c = "C" -> "c"
      [] c = "L" -> "l" [] c = "P" -> "p" [] OTHER -> c

\* str.lower()
Lower(s) == [j \in 1..Len(s) |-> LowerChar(s[j])]

\* needle in hay
Contains(hay, needle) ==
    \E k \in 0..(Len(hay) - Len(needle)) : SubSeq(hay, k + 1, k + Len(needle)) = needle

\* variant: the query string is kept
KeepQuery(s) == s

RECURSIVE BeforeQuery(_)
\* href.split("?")[0]
BeforeQuery(s) == IF s = <<>> THEN <<>>
                  ELSE IF Head(s) = "?" THEN <<>>
                  ELSE <<Head(s)>> \o BeforeQuery(Tail(s))

-----------------------------------------------------------------------------
(* ProfileParser.parse_name *)

RECURSIVE CollapseSpaces(_)
\* re.sub(r"\s+", " ", s): every run of white space becomes one space
CollapseSpaces(s) ==
    IF s = <<>> THEN <<>>
    ELSE IF Head(s) = " " THEN <<" ">> \o CollapseSpaces(LStrip(s))
    ELSE <<Head(s)>> \o CollapseSpaces(Tail(s))

\* the text before the first occurrence of the character c (all of it if none)
RECURSIVE Before(_, _)
Before(s, c) ==
    IF s = <<>> THEN <<>>
    ELSE IF Head(s) = c THEN <<>>
    ELSE <<Head(s)>> \o Before(Tail(s), c)

\* the text after the first occurrence of the character c (empty if none)
RECURSIVE After(_, _)
After(s, c) ==
    IF s = <<>> THEN <<>>
    ELSE IF Head(s) = c THEN Tail(s)
    ELSE After(Tail(s), c)

Has(s, c) == \E k \in 1..Len(s) : s[k] = c

RECURSIVE RemoveParens(_)
\* re.sub(r"\([^)]*\)", "", s): each "(" with a ")" somewhere after it is
\* removed together with everything up to the first such ")"
RemoveParens(s) ==
    IF s = <<>> THEN <<>>
    ELSE IF Head(s) = "(" /\ Has(Tail(s), ")") THEN RemoveParens(After(Tail(s), ")"))
    ELSE <<Head(s)>> \o RemoveParens(Tail(s))

\* re.sub(r",.*$", "", s)
CutAtComma(s) == Before(s, ",")

RECURSIVE Split(_, _)
\* s.split(c): the pieces between the occurrences of c, empty pieces included
Split(s, c) ==
    IF Has(s, c) THEN <<Before(s, c)>> \o Split(After(s, c), c)
    ELSE <<s>>

RECURSIVE Join(_, _)
\* c.join(parts)
Join(parts, c) ==
    IF parts = <<>> THEN <<>>
    ELSE IF Len(parts) = 1 THEN Head(parts)
    ELSE Head(parts) \o <<c>> \o Join(Tail(parts), c)

parse_name(full_name) ==
    LET n1 == Strip(full_name)
        n2 == CollapseSpaces(n1)
        n3 == Strip(RemoveParens(n2))
        n4 == Strip(CutAtComma(n3))
        parts == Split(n4, " ")
    IN  IF Len(parts) = 0 THEN [first |-> <<>>, last |-> <<>>]
        ELSE IF Len(parts) = 1 THEN [first |-> parts[1], last |-> <<>>]
        ELSE [first |-> parts[1], last |-> Join(Tail(parts), " ")]

-----------------------------------------------------------------------------
(* ProfileParser.extract_company_from_headline *)

\* (?:at|@|chez|presso|bei)
Connectors == << <<"a", "t">>, <<"@">>, <<"c", "h", "e", "z">>,
                <<"p", "r", "e", "s", "s", "o">>, <<"b", "e", "i">> >>

\* [|\-]
Separators == {"|", "-"}

RECURSIVE SpaceRun(_, _)
\* the number of consecutive spaces of s from position q on
SpaceRun(s, q) ==
    IF q > Len(s) THEN 0
    ELSE IF s[q] = " " THEN 1 + SpaceRun(s, q + 1)
    ELSE 0

\* re.IGNORECASE: the word w stands in s at position p, in any letter case
StandsAt(s, p, w) ==
    /\ p + Len(w) - 1 <= Len(s)
    /\ Lower(SubSeq(s, p, p + Len(w) - 1)) = w

\* \s+ (minw = 1) or \s* (minw = 0) from position q, followed by the first
\* character of the group: where the group starts, 0 when there is no match.
\* The white space is taken greedily; when it runs to the end of the text the
\* matcher gives its last space back to the group.
GroupStart(s, q, minw) ==
    LET run == SpaceRun(s, q) IN
    IF run >= minw /\ q + run <= Len(s) THEN q + run
    ELSE IF run >= minw + 1 THEN Len(s)
    ELSE 0

\* (?:\s*[|\-]|$) at position e
Terminated(s, e) ==
    \/ e > Len(s)
    \/ LET r == e + SpaceRun(s, e) IN r <= Len(s) /\ s[r] \in Separators

RECURSIVE GroupEnd(_, _)
\* (.+?) ending before position e or later: the first position at which the
\* terminator matches
GroupEnd(s, e) ==
    IF Terminated(s, e) THEN e ELSE GroupEnd(s, e + 1)

\* (.+?) from position g on: the shortest non-empty text after which the
\* terminator matches
LazyGroup(s, g) == SubSeq(s, g, GroupEnd(s, g + 1) - 1)

\* where pattern 1 / pattern 2 matches when tried at position p: the start of
\* its group, 0 when it does not match there
ConnectorAt(s, p) ==
    IF \E k \in 1..Len(Connectors) : StandsAt(s, p, Connectors[k])
    THEN LET k == CHOOSE k \in 1..Len(Connectors) : StandsAt(s, p, Connectors[k])
         IN  GroupStart(s, p + Len(Connectors[k]), 1)
    ELSE 0

SeparatorAt(s, p) ==
    IF s[p] \in Separators THEN GroupStart(s, p + 1, 0) ELSE 0

\* patterns[k] tried at position p: the start of its group, 0 for no match
MatchAt(s, p, k) == IF k = 1 THEN ConnectorAt(s, p) ELSE SeparatorAt(s, p)

RECURSIVE SearchFrom(_, _, _)
\* the pattern is tried at position p, then at the positions after it
SearchFrom(s, p, k) ==
    IF p > Len(s) THEN None
    ELSE LET g == MatchAt(s, p, k) IN
         IF g # 0 THEN Some(LazyGroup(s, g)) ELSE SearchFrom(s, p + 1, k)

\* re.search(patterns[k], s): group(1) of the leftmost match, None when
\* there is no match
Search(s, k) == SearchFrom(s, 1, k)

\* lines 116-119 for one pattern: the company it gives, "" when it gives none
Company(match) ==
    IF match = None THEN <<>>
    ELSE LET company == Strip(match[1]) IN
         IF company # <<>> /\ Len(company) > 1 THEN company ELSE <<>>

extract_company_from_headline(headline) ==
    LET first == Company(Search(headline, 1)) IN
    IF first # <<>> THEN first
    ELSE Company(Search(headline, 2))

-----------------------------------------------------------------------------
(* DOM model of one result card.                                           *)
(* For each logical field the card holds what each selector strategy of    *)
(* ProfileParser.CARD_SELECTORS does when queried: "absent" (count() = 0), *)
(* "raises" (the query or the read throws), "nohref" (the element is there *)
(* but get_attribute("href") is None or ""), or "found" with its text.     *)

Sel(kind, text) == [k |-> kind, v |-> text]
Absent == Sel("absent", <<>>)
Raises == Sel("raises", <<>>)
NoHref == Sel("nohref", <<>>)
Found(text) == Sel("found", text)

\* An <img> of the card.  src: its src attribute, as a sequence of tokens
\* ("profile", "media.licdn", "100_100", or other text); ind: src+alt holds a
\* text indicator; green: what detect_green_frame(src) gives; raises: a read
\* of an attribute throws.
ImgSrc(src, ind, green, raises) ==
    [src |-> src, ind |-> ind, green |-> green, raises |-> raises]

\* an image whose src is (thumb) or is not a profile-photo thumbnail
Img(ind, thumb, green, raises) ==
    ImgSrc(IF thumb THEN <<"media.licdn", "x", "100_100">> ELSE <<"x">>,
           ind, green, raises)

Card(name, location, link, html, text, badge, frame, imgs) ==
    [name |-> name, location |-> location, link |-> link, html |-> html,
     text |-> text, badge |-> badge, frame |-> frame, imgs |-> imgs,
     enum |-> "ok", headline |-> <<Absent, Absent, Absent>>]

\* the same card with what the three headline strategies find
WithHeadline(card, chain) == [card EXCEPT !.headline = chain]

\* badge selector matches; name and link by the first strategy; query string on the link
CardBadge ==
    WithHeadline(
        Card(<<Found(<<"A">>), Absent, Absent, Absent>>,
             <<Found(<<"P">>), Absent>>,
             <<Found(<<"a", "?", "x">>), Absent, Absent>>,
             "ok", FALSE, TRUE, FALSE, <<>>),
        <<Raises, Found(<<"x", " ", "a", "t", " ", "y", "z">>), Absent>>)

\* green ring on the photo only; first name strategy throws, first link has no href
CardRing ==
    Card(<<Raises, Found(<<" ", "B">>), Absent, Absent>>,
         <<Absent, Absent>>,
         <<NoHref, Found(<<"b">>), Absent>>,
         "ok", FALSE, FALSE, FALSE,
         <<Img(FALSE, FALSE, TRUE, FALSE), Img(FALSE, TRUE, TRUE, FALSE)>>)

\* no open-to-work signal at all; a name but no link
CardPlain ==
    Card(<<Absent, Absent, Found(<<"C">>), Absent>>,
         <<Raises, Found(<<"L">>)>>,
         <<Absent, Absent, Absent>>,
         "ok", FALSE, FALSE, FALSE, <<Img(FALSE, TRUE, FALSE, FALSE)>>)

\* the same profile as CardBadge under another query string; no name element
CardDup ==
    Card(<<Absent, Absent, Absent, Absent>>,
         <<Absent, Found(<<"p">>)>>,
         <<Raises, Found(<<"a", "?", "y">>), Absent>>,
         "ok", TRUE, FALSE, FALSE, <<>>)

\* neither a name (whitespace only) nor a link with an href
CardEmpty ==
    Card(<<Found(<<" ">>), Absent, Absent, Absent>>,
         <<Found(<<"P">>), Absent>>,
         <<NoHref, NoHref, Absent>>,
         "ok", FALSE, TRUE, FALSE, <<>>)

\* the inner markup cannot be read; an image of it carries the indicator; a
\* name but no link with an href
CardBroken ==
    Card(<<Found(<<"B">>), Absent, Absent, Absent>>,
         <<Absent, Absent>>,
         <<NoHref, Absent, Raises>>,
         "raises", FALSE, TRUE, FALSE, <<Img(TRUE, FALSE, FALSE, FALSE)>>)

CardPool == {CardBadge, CardRing, CardPlain, CardDup, CardEmpty, CardBroken}

-----------------------------------------------------------------------------
(* detect_green_frame *)

Pixel(r, g, b) == [r |-> r, g |-> g, b |-> b]
RingGreen == Pixel(98, 164, 113)
Grey == Pixel(128, 128, 128)
\* the ring colour, a grey, and a pale green that fails the colour test
PixelPool == {RingGreen, Grey, Pixel(100, 125, 104)}

\* What the fetch of a photo URL gives.  fetch: requests.get ("ok"/"raises");
\* status: the HTTP status; decode: Image.open(...).convert ("ok"/"raises");
\* samples: the pixels at the sampled points that lie inside the image.
Photo(fetch, status, decode, samples) ==
    [fetch |-> fetch, status |-> status, decode |-> decode, samples |-> samples]

\* line 56: the colour test of one sampled pixel
IsRingGreen(p) ==
    p.g > 120 /\ p.g > p.r /\ p.g > p.b /\ (p.g - p.r) > 30 /\ (p.g - p.b) > 20

RECURSIVE CountGreen(_)
CountGreen(samples) ==
    IF samples = <<>> THEN 0
    ELSE (IF IsRingGreen(Head(samples)) THEN 1 ELSE 0) + CountGreen(Tail(samples))

\* the try block of detect_green_frame
detect_green_frame_try(photo) ==
    IF photo.fetch = "raises" THEN Raised
    ELSE IF photo.status # 200 THEN Returned(FALSE)
    ELSE IF photo.decode = "raises" THEN Raised
    ELSE LET total_samples == Len(photo.samples)
             green_pixels  == CountGreen(photo.samples)
         IN  \* green_pixels / total_samples > 0.5
             Returned(total_samples > 0 /\ 2 * green_pixels > total_samples)

\* the except clause of detect_green_frame
detect_green_frame_except(outcome) ==
    IF outcome.raised THEN Returned(FALSE) ELSE outcome

\* one call of detect_green_frame, from entry to exit
detect_green_frame_call(photo) ==
    detect_green_frame_except(detect_green_frame_try(photo))

detect_green_frame(photo) == detect_green_frame_call(photo).value

-----------------------------------------------------------------------------
(* OpenToWorkDetector.detect_from_card *)

\* variant: every image with a src is analysed
IsAnyImage(src) == src # <<>>

\* line 169: src and ("profile" in src or "media.licdn" in src) and "100_100" in src
IsProfileThumbnail(src) ==
    /\ src # <<>>
    /\ Has(src, "profile") \/ Has(src, "media.licdn")
    /\ Has(src, "100_100")

RECURSIVE ImageScan(_)
\* Methods 4 and 5: the loop over the card's images
ImageScan(imgs) ==
    IF imgs = <<>> THEN FALSE
    ELSE LET img == Head(imgs) IN
         IF img.raises THEN ImageScan(Tail(imgs))
         ELSE IF img.ind THEN TRUE
         ELSE IF IsProfileThumbnail(img.src) /\ img.green THEN TRUE
         ELSE ImageScan(Tail(imgs))

RECURSIVE FetchScan(_)
\* the srcs the loop hands to detect_green_frame (line 170), in order
FetchScan(imgs) ==
    IF imgs = <<>> THEN <<>>
    ELSE LET img == Head(imgs) IN
         IF img.raises THEN FetchScan(Tail(imgs))
         ELSE IF img.ind THEN <<>>
         ELSE IF IsProfileThumbnail(img.src)
              THEN <<img.src>> \o (IF img.green THEN <<>> ELSE FetchScan(Tail(imgs)))
         ELSE FetchScan(Tail(imgs))

\* the outer try block of detect_from_card
detect_from_card_try(card) ==
    IF card.html = "raises" THEN Raised     \* inner_html() throws
    ELSE IF card.text THEN Returned(TRUE)   \* Method 1
    ELSE IF card.badge THEN Returned(TRUE)  \* Method 2
    ELSE IF card.frame THEN Returned(TRUE)  \* Method 3
    ELSE IF card.enum = "raises" THEN Raised
    ELSE Returned(ImageScan(card.imgs))

\* the detect_green_frame calls one detect_from_card call makes
detect_from_card_fetches(card) ==
    IF card.html = "raises" \/ card.text \/ card.badge \/ card.frame
       \/ card.enum = "raises"
    THEN <<>>
    ELSE FetchScan(card.imgs)

\* variant: the exception is not caught
detect_from_card_reraise(outcome) == outcome

\* the outer except clause of detect_from_card
detect_from_card_except(outcome) ==
    IF outcome.raised THEN Returned(FALSE) ELSE outcome

\* one call of detect_from_card, from entry to exit
detect_from_card_call(card) == detect_from_card_except(detect_from_card_try(card))

detect_from_card(card) == detect_from_card_call(card).value

-----------------------------------------------------------------------------
(* ProfileParser.parse_card *)

RECURSIVE FirstText(_)
\* name / location chain: the stripped text of the first strategy that matches
FirstText(chain) ==
    IF chain = <<>> THEN <<>>
    ELSE IF Head(chain).k = "found" THEN Strip(Head(chain).v)
    ELSE FirstText(Tail(chain))

RECURSIVE FirstUrl(_)
\* link chain: the first strategy with a truthy href, query string stripped
FirstUrl(chain) ==
    IF chain = <<>> THEN <<>>
    ELSE IF Head(chain).k = "found" /\ Head(chain).v # <<>>
         THEN BeforeQuery(Head(chain).v)
    ELSE FirstUrl(Tail(chain))

\* the dataclass ProfileData (scraped_at left out); fields not given are ""
ProfileData(full_name, location, profile_url, is_open_to_work) ==
    [first_name |-> <<>>, last_name |-> <<>>, full_name |-> full_name,
     headline |-> <<>>, current_company |-> <<>>, location |-> location,
     profile_url |-> profile_url, is_open_to_work |-> is_open_to_work]

\* lines 136-180: the record after the four selector loops
Extracted(card, is_open_to_work) ==
    LET full_name == FirstText(card.name)
        name      == IF full_name # <<>> THEN parse_name(full_name)
                     ELSE [first |-> <<>>, last |-> <<>>]
        headline  == FirstText(card.headline)
        company   == IF headline # <<>> THEN extract_company_from_headline(headline)
                     ELSE <<>>
    IN  [ProfileData(full_name, FirstText(card.location), FirstUrl(card.link),
                     is_open_to_work)
            EXCEPT !.first_name = name.first, !.last_name = name.last,
                   !.headline = headline, !.current_company = company]

\* variant: the validity test at the end of parse_card is dropped
parse_card_unchecked(card, is_open_to_work) ==
    Some(Extracted(card, is_open_to_work))

parse_card(card, is_open_to_work) ==
    LET profile == Extracted(card, is_open_to_work)
    IN  IF profile.full_name = <<>> /\ profile.profile_url = <<>>
        THEN None
        ELSE Some(profile)

-----------------------------------------------------------------------------
(* Session life cycle: LinkedInScraper.start and LinkedInScraper.close *)

Resources == {"driver", "pctx", "browser", "ectx"}

\* variant: a locked profile is not caught, start() raises
FallsBackUnlessLocked(launch) == launch \in {"error", "pagefail"}

\* variant: no failure is caught, start() raises
FallsBackNever(launch) == FALSE

\* The except clause of start(): which failures of the persistent launch lead
\* to the ephemeral fallback ("except Exception": every one of them).
FallsBack(launch) == launch \in {"locked", "error", "pagefail"}

\* start(), given what the automation library does:
\*   launch    - launch_persistent_context: "ok", "locked" (profile held by
\*               another instance), "error" (any other failure)
\*   firstPage - context.pages / context.new_page(): "ok" or "raises"
\*   fb        - the fallback: "ok", or the call that throws
\*               ("launch", "context", "page")
start(launch, firstPage, fb) ==
    LET r1   == [res EXCEPT !["driver"] = "open"]
        r2   == IF launch = "ok" THEN [r1 EXCEPT !["pctx"] = "open"] ELSE r1
        ctx1 == IF launch = "ok" THEN "pctx" ELSE context
        fail == IF launch # "ok" THEN launch
                ELSE IF firstPage = "raises" THEN "pagefail" ELSE "no"
    IN  IF fail = "no"
        THEN [playwright |-> "driver", browser |-> browser, context |-> ctx1,
              page |-> "ppage", res |-> r2, raised |-> FALSE, fallback |-> 0]
        ELSE IF ~FallsBack(fail)
        THEN [playwright |-> "driver", browser |-> browser, context |-> ctx1,
              page |-> page, res |-> r2, raised |-> TRUE, fallback |-> 0]
        ELSE IF fb = "launch"
        THEN [playwright |-> "driver", browser |-> browser, context |-> ctx1,
              page |-> page, res |-> r2, raised |-> TRUE, fallback |-> 1]
        ELSE IF fb = "context"
        THEN [playwright |-> "driver", browser |-> "browser", context |-> ctx1,
              page |-> page, res |-> [r2 EXCEPT !["browser"] = "open"],
              raised |-> TRUE, fallback |-> 1]
        ELSE [playwright |-> "driver", browser |-> "browser", context |-> "ectx",
              page |-> IF fb = "ok" THEN "epage" ELSE page,
              res |-> [r2 EXCEPT !["browser"] = "open", !["ectx"] = "open"],
              raised |-> (fb # "ok"), fallback |-> 1]

RECURSIVE ReleaseAll(_, _, _, _)
\* The three guarded release calls of close(), in order.  tolerant[h] tells
\* whether the library returns normally from a release call on the already
\* released resource h (otherwise that call throws and close() stops there).
ReleaseAll(handles, r, calls, tolerant) ==
    IF handles = <<>> THEN [res |-> r, calls |-> calls, raised |-> FALSE]
    ELSE LET h == Head(handles) IN
         IF h = NoHandle
         THEN ReleaseAll(Tail(handles), r, calls, tolerant)
         ELSE LET c2 == [calls EXCEPT ![h] = @ + 1] IN
              IF r[h] = "open"
              THEN ReleaseAll(Tail(handles), [r EXCEPT ![h] = "closed"], c2, tolerant)
              ELSE IF tolerant[h]
              THEN ReleaseAll(Tail(handles), r, c2, tolerant)
              ELSE [res |-> r, calls |-> c2, raised |-> TRUE]

close(tolerant) ==
    ReleaseAll(<<context, browser, playwright>>, res, hist.release_calls, tolerant)

-----------------------------------------------------------------------------
(* The login gate: LinkedInScraper.is_logged_in *)

\* "/login" and "/checkpoint"
LoginMark == <<"/", "l", "o", "g", "i", "n">>
CheckpointMark == <<"/", "c", "h", "e", "c", "k", "p", "o", "i", "n", "t">>

\* page.url after the navigation to the landing page
UrlFeed == <<"/", "f", "e", "e", "d", "/">>
UrlRoot == <<"/">>
UrlLogin == <<"/", "u", "a", "s">> \o LoginMark
UrlCheckpoint == CheckpointMark \o <<"/", "l", "g">>

\* What the browser shows to one is_logged_in() call.  goto: the navigation
\* ("ok"/"raises"); indicators: what count() gives for each of the four
\* logged_in_indicators ("absent", "present", or "raises"); url: page.url.
LoginDom(goto, indicators, url) ==
    [goto |-> goto, indicators |-> indicators, url |-> url]

RECURSIVE IndicatorScan(_)
\* the loop over logged_in_indicators: TRUE when one is present
IndicatorScan(indicators) ==
    IF indicators = <<>> THEN Returned(FALSE)
    ELSE IF Head(indicators) = "raises" THEN Raised
    ELSE IF Head(indicators) = "present" THEN Returned(TRUE)
    ELSE IndicatorScan(Tail(indicators))

\* the try block of is_logged_in, on the page handle pg
is_logged_in_try(pg, dom) ==
    IF pg = NoHandle THEN Raised            \* None has no goto
    ELSE IF dom.goto = "raises" THEN Raised
    ELSE LET scan == IndicatorScan(dom.indicators) IN
         IF scan.raised \/ scan.value THEN scan
         ELSE IF Contains(dom.url, LoginMark) \/ Contains(dom.url, CheckpointMark)
         THEN Returned(FALSE)
         ELSE Returned(FALSE)

\* variant: the exception is not caught
is_logged_in_reraise(outcome) == outcome

\* the except clause of is_logged_in
is_logged_in_except(outcome) ==
    IF outcome.raised THEN Returned(FALSE) ELSE outcome

\* one call of is_logged_in(), from entry to exit
is_logged_in_call(pg, dom) == is_logged_in_except(is_logged_in_try(pg, dom))

is_logged_in(pg, dom) == is_logged_in_call(pg, dom).value

Absent4 == <<"absent", "absent", "absent", "absent">>
\* the feed; the login form; a bare landing page; a checkpoint page that
\* carries the navigation bar; a site that is down; a feed whose second
\* indicator query throws
LoginPool ==
    {LoginDom("ok", <<"present", "absent", "absent", "absent">>, UrlFeed),
     LoginDom("ok", Absent4, UrlLogin),
     LoginDom("ok", Absent4, UrlRoot),
     LoginDom("ok", <<"absent", "absent", "absent", "present">>, UrlCheckpoint),
     LoginDom("raises", Absent4, UrlRoot),
     LoginDom("ok", <<"absent", "raises", "present", "absent">>, UrlFeed)}

-----------------------------------------------------------------------------
(* Initial state: a freshly constructed LinkedInScraper, main's arguments *)

\* __init__: no handle, no action counted; no generator frame, nothing collected
Fresh ==
    /\ playwright = NoHandle
    /\ browser = NoHandle
    /\ context = NoHandle
    /\ page = NoHandle
    /\ action_count = 0
    /\ res = [r \in Resources |-> "none"]
    /\ collected_count = 0
    /\ total_scraped = 0
    /\ seen_urls = {}
    /\ page_num = 1
    /\ card_count = 0
    /\ i = 0
    /\ nth_card = None
    /\ verdict = "none"
    /\ elapsed = 0
    /\ logged = "none"
    /\ profiles = <<>>
    /\ hist = [launch |-> "none", persistent_attempts |-> 0, fallback_attempts |-> 0,
               exit |-> "none", login_failed |-> FALSE,
               nav_search |-> FALSE, scrolled |-> FALSE, clicked |-> FALSE,
               next_page |-> FALSE,
               close_calls |-> 0, close_raised |-> FALSE,
               release_calls |-> [r \in Resources |-> 0]]

Init ==
    /\ pc = "new"
    /\ \E requested \in 0..MaxRequested, otw \in BOOLEAN, loc \in {<<>>, <<"p">>} :
          cfg = [max_profiles |-> Min(requested, MAX_PROFILES_PER_SESSION),
                 open_to_work_only |-> otw,
                 location |-> loc]
    /\ Fresh
    /\ call = NoCall
    /\ ret = <<>>

session == <<playwright, browser, context, page, res>>
locals == <<collected_count, total_scraped, seen_urls, page_num, card_count, i, nth_card,
            verdict>>

\* variant: only "search_loc in profile_loc" is tested
location_filter_oneway(location, profile_location) ==
    IF location # <<>>
    THEN Contains(Lower(profile_location), Lower(location))
    ELSE TRUE

\* lines 463-468: location_match, from the search location and profile.location
location_filter(location, profile_location) ==
    IF location # <<>>
    THEN LET profile_loc == Lower(profile_location)
             search_loc  == Lower(location)
         IN  Contains(profile_loc, search_loc) \/ Contains(search_loc, profile_loc)
    ELSE TRUE

\* __enter__: with LinkedInScraper(...) as scraper
Start ==
    /\ pc = "new"
    /\ \E launch \in {"ok", "locked", "error"}, firstPage \in {"ok", "raises"},
          fb \in {"ok", "launch", "context", "page"} :
          LET s == start(launch, firstPage, fb) IN
          /\ playwright' = s.playwright
          /\ browser' = s.browser
          /\ context' = s.context
          /\ page' = s.page
          /\ res' = s.res
          /\ hist' = [hist EXCEPT !.launch = launch,
                                  !.persistent_attempts = @ + 1,
                                  !.fallback_attempts = @ + s.fallback,
                                  !.exit = IF s.raised THEN "start_raised" ELSE @]
          /\ pc' = IF s.raised THEN "start_failed" ELSE "entered"
    /\ UNCHANGED <<cfg, call, ret, action_count, locals, elapsed, logged, profiles>>

-----------------------------------------------------------------------------
(* Pagination and pacing helpers *)

\* _increment_action, n times.  Values from MaxActionCount on are lumped.
increment_action(count, n) == Min(count + n, MaxActionCount)

\* variant: the pause is taken after every action
LongPauseAlways(count) == TRUE

\* line 106: the test _increment_action makes on the count it has just raised
LongPauseDue(count) == count % LONG_PAUSE_INTERVAL = 0

\* DOM of the pagination area.
\* next: what each "next" selector finds:
\*   "absent"   - count() = 0
\*   "hidden"   - is_visible() is False
\*   "disabled" - visible, get_attribute("disabled") is a non-empty string
\*   "disabled_empty" - visible, disabled="" (get_attribute gives ""), and the
\*                library performs the click (an <a disabled>, say)
\*   "disabled_refused" - visible, disabled="", and click() throws once the
\*                library has waited in vain for the control to be enabled
\*   "covered"  - visible, no disabled attribute, click() throws
\*   "enabled"  - visible, no disabled attribute, click() returns
\*   "raises"   - count(), is_visible() or get_attribute() throws
\* scroll: the scrollTo evaluate ("ok"/"raises"); current: the aria-current
\* button ("absent", "digit", "text"); number: the button of the following
\* page number ("absent", "present", or "hidden": it is in the DOM, not
\* visible, and click() on it throws).
Pager(next, scroll, current, number) ==
    [next |-> next, scroll |-> scroll, current |-> current, number |-> number]

\* no pagination area; a working Next; the last results page (Next is
\* disabled, the last page-number button is not); page numbers only; an area
\* on which everything throws; the last results page when Next carries a
\* bare disabled attribute
PaginationPool ==
    {Pager(<<"absent", "absent", "absent", "absent", "absent", "absent", "absent", "absent">>,
           "ok", "absent", "absent"),
     Pager(<<"enabled", "absent", "absent", "absent", "absent", "enabled", "enabled", "enabled">>,
           "ok", "digit", "present"),
     Pager(<<"disabled", "absent", "absent", "absent", "absent", "disabled", "disabled", "enabled">>,
           "ok", "digit", "absent"),
     Pager(<<"absent", "hidden", "raises", "absent", "absent", "absent", "absent", "absent">>,
           "ok", "digit", "present"),
     Pager(<<"raises", "raises", "raises", "raises", "raises", "raises", "raises", "raises">>,
           "raises", "text", "absent"),
     Pager(<<"disabled_refused", "absent", "absent", "disabled_empty", "absent",
             "disabled_refused", "disabled_refused", "enabled">>,
           "ok", "digit", "hidden")}

\* line 233: "if is_disabled: continue" on what get_attribute("disabled") gave
SkippedAsDisabled(control) == control = "disabled"

\* line 230: count() > 0 and is_visible()
IsVisible(control) ==
    control \in {"disabled", "disabled_empty", "disabled_refused", "covered", "enabled"}

\* lines 230-234: the control passes the tests, click() is called on it
ClickIssued(control) == IsVisible(control) /\ ~SkippedAsDisabled(control)

\* line 237: click() returns
ClickReturns(control) == control \in {"disabled_empty", "enabled"}

RECURSIVE NextScan(_)
\* the loop over next_selectors: the controls click() was called on, in
\* order, and whether the last of these calls returned (return True)
NextScan(controls) ==
    IF controls = <<>> THEN [clicked |-> FALSE, issued |-> <<>>]
    ELSE LET control == Head(controls) IN
         IF ~ClickIssued(control) THEN NextScan(Tail(controls))
         ELSE IF ClickReturns(control) THEN [clicked |-> TRUE, issued |-> <<control>>]
         ELSE LET rest == NextScan(Tail(controls))
              IN  [rest EXCEPT !.issued = <<control>> \o @]

\* _go_to_next_page: its result, the clicks that returned (each followed by
\* one _increment_action), whether it scrolled to the bottom, and the controls
\* click() was called on
go_to_next_page(dom) ==
    LET scan == NextScan(dom.next) IN
    IF scan.clicked
    THEN [result |-> TRUE, clicks |-> 1, scrolled |-> FALSE, issued |-> scan.issued]
    ELSE IF dom.scroll = "raises"
    THEN [result |-> FALSE, clicks |-> 0, scrolled |-> FALSE, issued |-> scan.issued]
    ELSE IF dom.current = "digit" /\ dom.number = "present"
    THEN [result |-> TRUE, clicks |-> 1, scrolled |-> TRUE,
          issued |-> Append(scan.issued, "number")]
    ELSE IF dom.current = "digit" /\ dom.number = "hidden"
    THEN [result |-> FALSE, clicks |-> 0, scrolled |-> TRUE,
          issued |-> Append(scan.issued, "number_hidden")]
    ELSE [result |-> FALSE, clicks |-> 0, scrolled |-> TRUE, issued |-> scan.issued]

\* DOM of the location filter.  button: the "Locations" filter button
\* ("absent", "found", or "raises" when the queries on it throw); input: the
\* location search box; suggestion: the first typeahead suggestion; apply: the
\* "Show results" button (each "absent" or "found").
FilterDom(button, input, suggestion, apply) ==
    [button |-> button, input |-> input, suggestion |-> suggestion, apply |-> apply]

FilterPool ==
    {FilterDom(button, input, suggestion, apply) :
        button \in {"absent", "found", "raises"}, input \in {"absent", "found"},
        suggestion \in {"absent", "found"}, apply \in {"absent", "found"}}

\* _apply_location_filter: its result and the clicks it made (the filter
\* button, the suggestion, the apply button).  No call of _increment_action
\* is made on any path.
apply_location_filter(dom) ==
    IF dom.button # "found"
    THEN [result |-> FALSE, clicked |-> FALSE, clicks |-> 0, increments |-> 0]
    ELSE LET suggestion == IF dom.input = "found" /\ dom.suggestion = "found"
                           THEN 1 ELSE 0
             apply      == IF dom.apply = "found" THEN 1 ELSE 0
         IN  [result |-> TRUE, clicked |-> TRUE, clicks |-> 1 + suggestion + apply,
              increments |-> 0]

\* _scroll_page on a page where: "grows" / "same" = the scroll is made and the
\* document height grows / stays; "raises_before" = the first evaluate throws;
\* "raises_after" = the scroll is made and counted, the last evaluate throws.
\* Its result, the scrolls it made and its calls of _increment_action.
scroll_page(dom) ==
    IF dom = "raises_before" THEN [result |-> FALSE, scrolls |-> 0, increments |-> 0]
    ELSE [result |-> (dom = "grows"), scrolls |-> 1, increments |-> 1]

ScrollPool == {"grows", "same", "raises_before", "raises_after"}

-----------------------------------------------------------------------------
(* LinkedInScraper._get_profile_cards *)

\* What the three container strategies of CARD_SELECTORS do when counted:
\* "absent" (count() = 0), "found" (count() > 0), "raises" (count() throws).
ContainerPool == [1..3 -> {"absent", "found", "raises"}]

RECURSIVE ContainerScan(_, _)
\* lines 200-205, from strategy k on: the strategy whose locator is returned,
\* 0 for the hardcoded locator of line 205.  Nothing catches a count() that
\* throws.
ContainerScan(chain, k) ==
    IF chain = <<>> THEN Returned(0)
    ELSE IF Head(chain) = "raises" THEN Raised
    ELSE IF Head(chain) = "found" THEN Returned(k)
    ELSE ContainerScan(Tail(chain), k + 1)

\* one call of _get_profile_cards, from entry to exit
get_profile_cards_call(chain) == ContainerScan(chain, 1)

-----------------------------------------------------------------------------
(* The generator scrape_search_results, pulled by main's for loop *)

\* The generator's frame is gone once the generator has returned, raised or
\* been abandoned: its locals no longer exist (they read as at the start).
DropFrame ==
    /\ collected_count' = 0
    /\ total_scraped' = 0
    /\ seen_urls' = {}
    /\ page_num' = 1
    /\ card_count' = 0
    /\ i' = 0
    /\ nth_card' = None
    /\ verdict' = "none"
    /\ elapsed' = 0
    /\ logged' = "none"

\* the block is left with an exception raised inside the generator
RaiseOut ==
    /\ pc' = "leaving"
    /\ hist' = [hist EXCEPT !.exit = "exception"]
    /\ DropFrame

\* lines 401-404: is_logged_in(), and the start of wait_for_login
CheckLogin ==
    /\ pc = "entered"
    /\ \E dom \in LoginPool, gotoOk \in BOOLEAN :
          IF is_logged_in(page, dom)
          THEN /\ pc' = "navigate"
               /\ logged' = "True"
               /\ UNCHANGED <<hist, locals, elapsed>>
          ELSE IF gotoOk
          THEN /\ pc' = "wait_login"
               /\ elapsed' = 0
               /\ logged' = "False"
               /\ UNCHANGED <<hist, locals>>
          ELSE RaiseOut
    /\ UNCHANGED <<cfg, call, ret, session, action_count, profiles>>

\* variant: the return after a failed login is missing
AfterLoginFailureGoesOn == "navigate"

\* lines 402-404: where the generator goes when wait_for_login returns False
AfterLoginFailure == "gen_done"

\* variant: the timeout test is dropped
NeverTimedOut(e) == FALSE

\* line 158: the timeout test of wait_for_login
TimedOut(e) == e > LoginTimeout

\* One iteration of wait_for_login's loop.  Each iteration that goes round
\* again sleeps (human_delay(2, 3)), so the next reading of the clock is later
\* by at least one tick; readings beyond the timeout are lumped.
PollLogin ==
    /\ pc = "wait_login"
    /\ \/ RaiseOut                            \* page.evaluate throws
       \/ IF TimedOut(elapsed)
          THEN /\ pc' = AfterLoginFailure     \* return False; line 404: return
               /\ hist' = [hist EXCEPT !.login_failed = TRUE]
               /\ UNCHANGED <<locals, elapsed, logged>>
          ELSE \E dom \in LoginPool, d \in 1..MaxTick :
                  /\ UNCHANGED <<hist, locals>>
                  /\ IF is_logged_in(page, dom)
                     THEN /\ pc' = "navigate"
                          /\ logged' = "True"
                          /\ UNCHANGED elapsed
                     ELSE /\ pc' = "wait_login"
                          /\ logged' = "False"
                          /\ elapsed' = Min(elapsed + d, LoginTimeout + MaxTick)
    /\ UNCHANGED <<cfg, call, ret, session, action_count, profiles>>

\* lines 406-419: navigation to the search URL, location filter, locals
Navigate ==
    /\ pc = "navigate"
    /\ \E gotoOk \in BOOLEAN, filterDom \in FilterPool :
          IF ~gotoOk THEN RaiseOut
          ELSE /\ pc' = "loop_head"
               /\ hist' = [hist EXCEPT
                     !.nav_search = TRUE,
                     !.clicked = @ \/ (cfg.location # <<>>
                                       /\ apply_location_filter(filterDom).clicked)]
               /\ collected_count' = 0
               /\ total_scraped' = 0
               /\ seen_urls' = {}
               /\ page_num' = 1
               /\ logged' = "none"
               /\ UNCHANGED <<card_count, i, nth_card, verdict, elapsed>>
    /\ UNCHANGED <<cfg, call, ret, session, action_count, profiles>>

\* line 431: the while condition
WhileContinues == collected_count < cfg.max_profiles

\* line 432: the session ceiling check
SessionLimitReached == total_scraped >= MAX_PROFILES_PER_SESSION

\* lines 431-438: loop head and the three scrolls.  Each _scroll_page call
\* scrolls and counts one action; its result is ignored by the loop.
BeginPage ==
    /\ pc = "loop_head"
    /\ IF ~WhileContinues \/ SessionLimitReached
       THEN pc' = "gen_done" /\ UNCHANGED <<hist, action_count>>
       ELSE /\ pc' = "discover"
            /\ action_count' = increment_action(action_count, 3)
            /\ hist' = [hist EXCEPT !.scrolled = TRUE]
    /\ UNCHANGED <<cfg, call, ret, session, locals, elapsed, logged, profiles>>

\* variant: a page without cards is handled like any other page
NoCardsIgnored(n) == FALSE

\* line 443: the test on the number of cards found
NoCards(n) == n = 0

\* lines 440-447: card discovery
GetCards ==
    /\ pc = "discover"
    /\ \/ \E chain \in ContainerPool :         \* _get_profile_cards raises
             get_profile_cards_call(chain).raised /\ RaiseOut
       \/ RaiseOut                              \* cards.count() raises
       \/ \E n \in 0..MaxCards :
             /\ card_count' = n
             /\ pc' = IF NoCards(n) THEN "gen_done" ELSE "card"
             /\ i' = IF NoCards(n) THEN i ELSE 0
             /\ UNCHANGED <<collected_count, total_scraped, seen_urls, page_num,
                            nth_card, verdict, hist, elapsed, logged>>
    /\ UNCHANGED <<cfg, call, ret, session, action_count, profiles>>

\* lines 452-455: detection, then the parse, of each card the page can show
CardOutcome ==
    [card \in CardPool |-> parse_card(card, detect_from_card(card))]

\* variant: the card loop does not look at the requested maximum
CardLoopNeverStops == FALSE

\* line 450: the check at the top of the card loop
CardLoopStops == collected_count >= cfg.max_profiles

\* variant: the dedup test is dropped
IsNewAlways(url) == TRUE

\* line 458: the dedup test
IsNew(url) == url \notin seen_urls

\* lines 463-468, on the location the caller passed
location_match(profile) == location_filter(cfg.location, profile.location)

\* variant: the open-to-work filter is dropped
AcceptsUnfiltered(profile) == location_match(profile)

\* variant: the open_to_work_only flag is not looked at
AcceptsOpenOnly(profile) ==
    location_match(profile) /\ profile.is_open_to_work

\* line 470
Accepts(profile) ==
    location_match(profile) /\ (~cfg.open_to_work_only \/ profile.is_open_to_work)

\* variant: the record is stored and the loop goes on without suspending
NotSuspended == "card"

\* line 477: at the yield the generator is suspended until the consumer pulls
Suspended == "yielded"

\* lines 449-481: one iteration of the card loop, up to a yield
ProcessCard ==
    /\ pc = "card"
    /\ IF i >= card_count \/ CardLoopStops
       THEN /\ pc' = "paginate"
            /\ verdict' = "stop"
            /\ UNCHANGED <<collected_count, total_scraped, seen_urls, page_num,
                           card_count, i, nth_card, profiles>>
       ELSE \E nth \in CardPool :
               LET parsed == CardOutcome[nth]
               IN  /\ nth_card' = Some(nth)
                   /\ IF parsed # None /\ IsNew(parsed[1].profile_url)
                      THEN LET profile == parsed[1] IN
                           /\ seen_urls' = seen_urls \cup {profile.profile_url}
                           /\ total_scraped' = total_scraped + 1
                           /\ IF Accepts(profile)
                              THEN /\ collected_count' = collected_count + 1
                                   /\ profiles' = Append(profiles, profile)
                                   /\ pc' = Suspended
                                   /\ verdict' = "yielded"
                                   /\ UNCHANGED i
                              ELSE /\ i' = i + 1
                                   /\ pc' = "card"
                                   /\ verdict' = "rejected"
                                   /\ UNCHANGED <<collected_count, profiles>>
                           /\ UNCHANGED <<page_num, card_count>>
                      ELSE /\ i' = i + 1
                           /\ pc' = "card"
                           /\ verdict' = IF parsed = None THEN "invalid" ELSE "duplicate"
                           /\ UNCHANGED <<collected_count, total_scraped, seen_urls,
                                          page_num, card_count, profiles>>
    /\ UNCHANGED <<cfg, call, ret, session, action_count, elapsed, logged, hist>>

\* main's for loop asks for the next record: the generator resumes after the yield
Pull ==
    /\ pc = "yielded"
    /\ pc' = "card"
    /\ i' = i + 1
    /\ UNCHANGED <<cfg, call, ret, session, action_count, collected_count, total_scraped,
                   seen_urls, page_num, card_count, nth_card, verdict, elapsed, logged,
                   profiles, hist>>

\* the consumer stops iterating after a record
StopEarly ==
    /\ pc = "yielded"
    /\ pc' = "leaving"
    /\ hist' = [hist EXCEPT !.exit = "early"]
    /\ DropFrame
    /\ UNCHANGED <<cfg, call, ret, session, action_count, profiles>>

\* lines 483-488
Paginate ==
    /\ pc = "paginate"
    /\ \E dom \in PaginationPool :
          LET r == go_to_next_page(dom) IN
          /\ action_count' = increment_action(action_count, r.clicks)
          /\ hist' = [hist EXCEPT !.next_page = TRUE,
                                  !.clicked = @ \/ r.clicks > 0,
                                  !.scrolled = @ \/ r.scrolled]
          /\ IF r.result
             THEN pc' = "loop_head" /\ page_num' = Min(page_num + 1, MaxPageNum)
             ELSE pc' = "gen_done" /\ UNCHANGED page_num
    /\ UNCHANGED <<cfg, call, ret, session, collected_count, total_scraped, seen_urls,
                   card_count, i, nth_card, verdict, elapsed, logged, profiles>>

\* the generator returns: main's for loop ends
Finish ==
    /\ pc = "gen_done"
    /\ pc' = "leaving"
    /\ hist' = [hist EXCEPT !.exit = "normal"]
    /\ DropFrame
    /\ UNCHANGED <<cfg, call, ret, session, action_count, profiles>>

InBlock == pc \in {"entered", "wait_login", "navigate", "loop_head", "discover",
                   "card", "yielded", "paginate", "gen_done"}

\* KeyboardInterrupt while the with block runs
Interrupt ==
    /\ InBlock
    /\ pc' = "leaving"
    /\ hist' = [hist EXCEPT !.exit = "interrupt"]
    /\ DropFrame
    /\ UNCHANGED <<cfg, call, ret, session, action_count, profiles>>

\* the effect of one close() call on the state
CloseCall ==
    \E tolerant \in [Resources -> BOOLEAN] :
       LET c == close(tolerant) IN
       /\ res' = c.res
       /\ hist' = [hist EXCEPT !.release_calls = c.calls,
                               !.close_calls = @ + 1,
                               !.close_raised = @ \/ c.raised]
       /\ UNCHANGED <<cfg, call, ret, playwright, browser, context, page, action_count,
                      locals, elapsed, logged, profiles>>

\* __exit__: close() on leaving the with block
Exit ==
    /\ pc = "leaving"
    /\ pc' = "closed"
    /\ CloseCall

\* a further close() on the closed scraper
CloseAgain ==
    /\ pc = "closed"
    /\ hist.close_calls < MaxCloseCalls
    /\ pc' = "closed"
    /\ CloseCall

\* variant: main returns without exporting whatever it collected
EmptyListAlways(records) == TRUE

\* main.py line 126: "if not profiles"
EmptyList(records) == records = <<>>

\* main.py lines 119-132: past the with block and the two except clauses,
\* which only print: main returns when nothing was collected, and goes on to
\* the export otherwise
AfterBlock ==
    /\ pc \in {"closed", "start_failed"}
    /\ pc' = IF EmptyList(profiles) THEN "returned" ELSE "export"
    /\ UNCHANGED <<cfg, call, ret, session, action_count, locals, elapsed, logged,
                   profiles, hist>>

\* main.py lines 134-153: the export of main's list.  output is main's --output
\* option; nothing before the export reads it.  A failed CSV export is
\* logged; a failed sheets export falls back to CSV, outside any try.
Export ==
    /\ pc = "export"
    /\ \E output \in {"csv", "sheets"}, first \in {"ok", "raises"},
          fallback \in {"ok", "raises"} :
          pc' = IF first = "ok" THEN "exported"
                ELSE IF output = "csv" THEN "export_failed"
                ELSE IF fallback = "ok" THEN "exported"
                ELSE "crashed"
    /\ UNCHANGED <<cfg, call, ret, session, action_count, locals, elapsed, logged,
                   profiles, hist>>

Next ==
    \/ Start
    \/ CheckLogin
    \/ PollLogin
    \/ Navigate
    \/ BeginPage
    \/ GetCards
    \/ ProcessCard
    \/ Pull
    \/ StopEarly
    \/ Paginate
    \/ Finish
    \/ Interrupt
    \/ Exit
    \/ CloseAgain
    \/ AfterBlock
    \/ Export

Spec == Init /\ [][Next]_vars

\* The program runs on as long as it has a step to take.
FairSpec == Spec /\ WF_vars(Next)

\* The run up to the end of the login gate (lines 401-404) and its ways out.
GateNext ==
    \/ Start
    \/ CheckLogin
    \/ PollLogin
    \/ Finish
    \/ Interrupt
    \/ Exit

\* wait_for_login's loop has no blocking call without a timeout: an iteration
\* that can run does run.
GateSpec == Init /\ [][GateNext]_vars /\ WF_vars(PollLogin)

-----------------------------------------------------------------------------
(* Library functions called on their own, each on an input of a bounded set *)

LoginCalls ==
    {[fn |-> "is_logged_in", arg |-> [page |-> pg, dom |-> LoginDom(g, ind, u)]] :
        pg \in {NoHandle, "ppage"}, g \in {"ok", "raises"},
        ind \in [1..4 -> {"absent", "present", "raises"}], u \in {UrlFeed, UrlRoot, UrlLogin, UrlCheckpoint}}

\* photos: every outcome of the fetch and the decode, every list of samples
GreenCalls ==
    {[fn |-> "detect_green_frame", arg |-> Photo(f, st, d, px)] :
        f \in {"ok", "raises"}, st \in {200, 404}, d \in {"ok", "raises"},
        px \in SeqsUpTo(PixelPool, MaxSamples)}

RingPhoto == Photo("ok", 200, "ok", <<RingGreen, RingGreen, Grey>>)

\* images: an indicator in src/alt; a thumbnail with the green ring; a green
\* image that is no thumbnail; a thumbnail with no ring; an image with every
\* signal whose attributes cannot be read
ImgRing == Img(FALSE, TRUE, detect_green_frame(RingPhoto), FALSE)
ImgUnreadable == Img(TRUE, TRUE, TRUE, TRUE)
ImagePool ==
    {Img(TRUE, FALSE, FALSE, FALSE), ImgRing, Img(FALSE, FALSE, TRUE, FALSE),
     Img(FALSE, TRUE, FALSE, FALSE), ImgUnreadable}

\* cards: every combination of the signals and of the reads that throw
SignalCard(html, text, badge, frame, enum, imgs) ==
    [Card(<<Found(<<"A">>), Absent, Absent, Absent>>, <<Absent, Absent>>,
          <<Found(<<"a">>), Absent, Absent>>, html, text, badge, frame, imgs)
       EXCEPT !.enum = enum]

DetectCalls ==
    {[fn |-> "detect_from_card", arg |-> SignalCard(h, t, b, f, e, imgs)] :
        h \in {"ok", "raises"}, t \in BOOLEAN, b \in BOOLEAN, f \in BOOLEAN,
        e \in {"ok", "raises"}, imgs \in SeqsUpTo(ImagePool, MaxImgs)}

\* detect_from_card on cards whose images differ by their src.  The srcs:
\* none; other text; a marker without the size token; the size token without
\* a marker; each marker with the size token.  The images: each src with a
\* photo that has the ring or has none; an image with an indicator in
\* src+alt; an image whose attributes cannot be read.
FetchCalls ==
    LET srcs == {<<>>, <<"x">>, <<"profile", "x">>, <<"x", "100_100">>,
                 <<"x", "profile", "100_100">>, <<"media.licdn", "x", "100_100">>}
        images == {ImgSrc(src, FALSE, green, FALSE) : src \in srcs, green \in BOOLEAN}
                  \cup {ImgSrc(<<"x", "profile", "100_100">>, TRUE, TRUE, FALSE),
                        ImgSrc(<<"x", "profile", "100_100">>, FALSE, TRUE, TRUE)}
    IN  {[fn |-> "detect_from_card", arg |-> SignalCard(h, t, b, f, "ok", imgs)] :
            h \in {"ok", "raises"}, t \in BOOLEAN, b \in BOOLEAN, f \in BOOLEAN,
            imgs \in SeqsUpTo(images, MaxImgs)}

RECURSIVE Concat(_)
Concat(tokens) ==
    IF tokens = <<>> THEN <<>> ELSE Head(tokens) \o Concat(Tail(tokens))

\* names: a letter, the space, a parenthesised group, single parentheses and
\* the comma, put together in every order
NameTokens == {<<"a">>, <<" ">>, <<"(", "a", ")">>, <<"(">>, <<")">>, <<",">>}

NameCalls ==
    {[fn |-> "parse_name", arg |-> Concat(tokens)] :
        tokens \in SeqsUpTo(NameTokens, MaxNameTokens)}

\* headlines: words of one and two letters, a word that ends in "at", the
\* connector "at" in two letter cases, the space and the two separators, put
\* together in every order
HeadlineTokens == {<<"x">>, <<"y", "z">>, <<"x", "a", "t">>, <<"a", "t">>,
                   <<"A", "t">>, <<" ">>, <<"|">>, <<"-">>}

HeadlineCalls ==
    {[fn |-> "extract_company_from_headline", arg |-> Concat(tokens)] :
        tokens \in SeqsUpTo(HeadlineTokens, MaxHeadlineTokens)}

\* cards with a name and one link, whose href is any text of letters,
\* slashes and question marks
LinkCard(href) ==
    Card(<<Found(<<"A">>), Absent, Absent, Absent>>, <<Absent, Absent>>,
         <<Found(href), Absent, Absent>>, "ok", FALSE, FALSE, FALSE, <<>>)

CardCalls ==
    {[fn |-> "parse_card", arg |-> LinkCard(href)] :
        href \in SeqsUpTo({"a", "/", "?"}, MaxUrlLen)}

\* _go_to_next_page on every pagination area with MaxNextSelectors selectors
PagerCalls ==
    {[fn |-> "_go_to_next_page", arg |-> Pager(next, scroll, current, number)] :
        next \in [1..MaxNextSelectors ->
                    {"absent", "hidden", "disabled", "disabled_empty",
                     "disabled_refused", "covered", "enabled", "raises"}],
        scroll \in {"ok", "raises"},
        current \in {"absent", "digit", "text"},
        number \in {"absent", "present", "hidden"}}

\* _scroll_page and _apply_location_filter on every page of their pools
ScrollCalls == {[fn |-> "_scroll_page", arg |-> dom] : dom \in ScrollPool}
FilterCalls == {[fn |-> "_apply_location_filter", arg |-> dom] : dom \in FilterPool}

\* the location test on every pair of a search location and a record location
LocationCalls ==
    {[fn |-> "location_match", arg |-> [location |-> s, profile_location |-> l]] :
        s \in SeqsUpTo({"p", "P", "a"}, MaxLocationLen),
        l \in SeqsUpTo({"p", "P", "a"}, MaxLocationLen)}

\* what the strategy at each place of a chain finds, by kind
Chain(kinds) ==
    [k \in 1..Len(kinds) |->
        IF kinds[k] = "found" THEN Found(<<<<"a", "b", "c", "d">>[k]>>)
        ELSE Sel(kinds[k], <<>>)]

\* a card without open-to-work signal, given the kinds of its four chains
FieldCard(name, headline, location, link) ==
    WithHeadline(Card(Chain(name), Chain(location), Chain(link),
                      "ok", FALSE, FALSE, FALSE, <<>>),
                 Chain(headline))

StrategyKinds == {"absent", "raises", "found"}
FirstFound(n) == [k \in 1..n |-> IF k = 1 THEN "found" ELSE "absent"]

\* parse_card on cards of which one chain takes every shape
FieldCalls ==
    {[fn |-> "parse_card", arg |-> card] : card \in
        UNION {
          {FieldCard(name, FirstFound(3), FirstFound(2), FirstFound(3)) :
              name \in [1..4 -> StrategyKinds]},
          {FieldCard(FirstFound(4), headline, FirstFound(2), FirstFound(3)) :
              headline \in [1..3 -> StrategyKinds]},
          {FieldCard(FirstFound(4), FirstFound(3), location, FirstFound(3)) :
              location \in [1..2 -> StrategyKinds]},
          {FieldCard(name, FirstFound(3), FirstFound(2), link) :
              name \in {FirstFound(4), <<"absent", "absent", "absent", "absent">>},
              link \in [1..3 -> StrategyKinds \cup {"nohref"}]} }}

ContainerCalls == {[fn |-> "_get_profile_cards", arg |-> chain] : chain \in ContainerPool}

\* the calls, function by function
Calls == <<LoginCalls, GreenCalls, DetectCalls, NameCalls, HeadlineCalls, CardCalls,
           PagerCalls, ScrollCalls, FilterCalls, FieldCalls, ContainerCalls, FetchCalls, LocationCalls>>

LibInit ==
    /\ pc = "lib"
    /\ cfg = [max_profiles |-> 0, open_to_work_only |-> FALSE, location |-> <<>>]
    /\ Fresh
    /\ \E k \in 1..Len(Calls) : call \in Calls[k]
    /\ ret = <<>>

\* everything but the call in progress
scraper == <<pc, cfg, session, action_count, locals, elapsed, logged, profiles, hist>>

IsLoggedIn ==
    /\ call.fn = "is_logged_in"
    /\ ret = <<>>
    /\ ret' = <<is_logged_in_call(call.arg.page, call.arg.dom)>>
    /\ UNCHANGED <<call, scraper>>

DetectGreenFrame ==
    /\ call.fn = "detect_green_frame"
    /\ ret = <<>>
    /\ ret' = <<detect_green_frame_call(call.arg)>>
    /\ UNCHANGED <<call, scraper>>

DetectFromCard ==
    /\ call.fn = "detect_from_card"
    /\ ret = <<>>
    /\ ret' = <<detect_from_card_call(call.arg), detect_from_card_fetches(call.arg)>>
    /\ UNCHANGED <<call, scraper>>

ParseName ==
    /\ call.fn = "parse_name"
    /\ ret = <<>>
    /\ ret' = <<parse_name(call.arg)>>
    /\ UNCHANGED <<call, scraper>>

ExtractCompany ==
    /\ call.fn = "extract_company_from_headline"
    /\ ret = <<>>
    /\ ret' = <<extract_company_from_headline(call.arg)>>
    /\ UNCHANGED <<call, scraper>>

ParseCard ==
    /\ call.fn = "parse_card"
    /\ ret = <<>>
    /\ ret' = <<parse_card(call.arg, detect_from_card(call.arg))>>
    /\ UNCHANGED <<call, scraper>>

GoToNextPage ==
    /\ call.fn = "_go_to_next_page"
    /\ ret = <<>>
    /\ LET r == go_to_next_page(call.arg) IN
       /\ ret' = <<r>>
       /\ action_count' = increment_action(action_count, r.clicks)
    /\ UNCHANGED <<call, pc, cfg, session, locals, elapsed, logged, profiles, hist>>

GetProfileCards ==
    /\ call.fn = "_get_profile_cards"
    /\ ret = <<>>
    /\ ret' = <<get_profile_cards_call(call.arg)>>
    /\ UNCHANGED <<call, scraper>>

ScrollPage ==
    /\ call.fn = "_scroll_page"
    /\ ret = <<>>
    /\ LET r == scroll_page(call.arg) IN
       /\ ret' = <<r>>
       /\ action_count' = increment_action(action_count, r.increments)
    /\ UNCHANGED <<call, pc, cfg, session, locals, elapsed, logged, profiles, hist>>

ApplyLocationFilter ==
    /\ call.fn = "_apply_location_filter"
    /\ ret = <<>>
    /\ LET r == apply_location_filter(call.arg) IN
       /\ ret' = <<r>>
       /\ action_count' = increment_action(action_count, r.increments)
    /\ UNCHANGED <<call, pc, cfg, session, locals, elapsed, logged, profiles, hist>>

LocationMatch ==
    /\ call.fn = "location_match"
    /\ ret = <<>>
    /\ ret' = <<location_filter(call.arg.location, call.arg.profile_location)>>
    /\ UNCHANGED <<call, scraper>>

LibNext ==
    \/ IsLoggedIn
    \/ DetectGreenFrame
    \/ DetectFromCard
    \/ ParseName
    \/ ExtractCompany
    \/ ParseCard
    \/ GoToNextPage
    \/ ScrollPage
    \/ ApplyLocationFilter
    \/ GetProfileCards
    \/ LocationMatch

LibSpec == LibInit /\ [][LibNext]_vars

-----------------------------------------------------------------------------
(* Pacing: the page-driving methods called one after another on one scraper *)

PaceInit ==
    /\ pc = "pace"
    /\ cfg = [max_profiles |-> 0, open_to_work_only |-> FALSE, location |-> <<"p">>]
    /\ Fresh
    /\ call = NoCall
    /\ ret = <<>>

\* One call of a page-driving method that gives `result` and calls
\* _increment_action n times (n <= 1): the count goes up, and long_pause() is
\* taken inside the call when the test of line 106 says so.
Counted(fn, dom, result, n) ==
    /\ action_count + n <= MaxActionCount
    /\ action_count' = increment_action(action_count, n)
    /\ call' = [fn |-> fn, arg |-> dom]
    /\ ret' = <<[result |-> result, paused |-> n > 0 /\ LongPauseDue(action_count')]>>
    /\ UNCHANGED <<pc, cfg, session, locals, elapsed, logged, profiles, hist>>

PaceScroll ==
    /\ pc = "pace"
    /\ \E dom \in ScrollPool :
          LET r == scroll_page(dom) IN Counted("_scroll_page", dom, r.result, r.increments)

PaceNextPage ==
    /\ pc = "pace"
    /\ \E dom \in PaginationPool :
          LET r == go_to_next_page(dom) IN Counted("_go_to_next_page", dom, r.result, r.clicks)

PaceFilter ==
    /\ pc = "pace"
    /\ \E dom \in FilterPool :
          LET r == apply_location_filter(dom)
          IN  Counted("_apply_location_filter", dom, r.result, r.increments)

PaceNext ==
    \/ PaceScroll
    \/ PaceNextPage
    \/ PaceFilter

PaceSpec == PaceInit /\ [][PaceNext]_vars

-----------------------------------------------------------------------------
(* Properties *)

BadgeRecord == parse_card(CardBadge, detect_from_card(CardBadge))[1]
RingRecord == parse_card(CardRing, detect_from_card(CardRing))[1]

\* the step in which _go_to_next_page runs
PaginateCall == pc = "paginate" /\ pc' \in {"loop_head", "gen_done"}

Ended == pc \in {"closed", "start_failed"}

\* C1: no two yielded records share a profile_url, and every insertion into
\* seen_urls (each one counted by total_scraped) is of a URL not yet in it.
C1_NoDuplicates ==
    /\ \A a, b \in 1..Len(profiles) :
          a # b => profiles[a].profile_url # profiles[b].profile_url
    /\ total_scraped = Cardinality(seen_urls)

\* C1 witness: a card with an already seen URL was skipped after a yield
C1_Witness ==
    /\ verdict = "duplicate"
    /\ Len(profiles) >= 1
    /\ total_scraped >= 1

\* C2: total_scraped never exceeds the session ceiling
C2_CeilingRespected == total_scraped <= MAX_PROFILES_PER_SESSION

\* C3: collected_count and the number of yielded records never exceed max_profiles
C3_CollectedBounded ==
    /\ collected_count <= cfg.max_profiles
    /\ Len(profiles) <= cfg.max_profiles

\* C3 witness: the maximum is reached while cards of the page remain
C3_Witness ==
    /\ pc = "paginate"
    /\ cfg.max_profiles > 0
    /\ collected_count = cfg.max_profiles
    /\ i < card_count

\* C4: every run ends (the generator returns or the block is left)
C4_Terminates == <>Ended

\* C5: once collected_count has reached max_profiles, _go_to_next_page is not
\* invoked; in the three-card scenario the first two cards are yielded and
\* pagination is not visited.
C5_NoPaginationAtMax ==
    [][(collected_count >= cfg.max_profiles
          \/ (/\ cfg.max_profiles = 2 /\ cfg.open_to_work_only
              /\ page_num = 1 /\ card_count = 3 /\ i = 2
              /\ profiles = <<BadgeRecord, RingRecord>>))
        => ~PaginateCall]_vars

\* parse_card over every card of the pool: None exactly when the name chain
\* and the link chain both end empty
NoneIffNameAndUrlEmpty ==
    \A card \in CardPool, b \in BOOLEAN :
       (parse_card(card, b) = None)
          <=> (FirstText(card.name) = <<>> /\ FirstUrl(card.link) = <<>>)

\* C6: parse_card returns None exactly when name and URL are both empty, and
\* every yielded record has a name or a URL.
C6_NoInvalidRecord ==
    /\ NoneIffNameAndUrlEmpty
    /\ \A a \in 1..Len(profiles) :
          profiles[a].full_name # <<>> \/ profiles[a].profile_url # <<>>

\* C6 witness: an invalid card was dropped, and a record with no name was yielded
C6_Witness ==
    /\ verdict = "invalid"
    /\ \E a \in 1..Len(profiles) : profiles[a].full_name = <<>>

\* C7: after the with block, every resource start() acquired is released
C7_AllReleased ==
    pc = "closed" => \A r \in Resources : res[r] # "open"

\* C8: a repeated close() issues no release call on a released resource and
\* raises no error
C8_CloseIdempotent ==
    hist.close_calls >= 2 =>
        /\ \A r \in Resources : hist.release_calls[r] <= 1
        /\ ~hist.close_raised

C10_LoginFailureEndsQuietly ==
    hist.login_failed =>
        /\ profiles = <<>>
        /\ ~hist.nav_search
        /\ ~hist.scrolled
        /\ ~hist.clicked
        /\ ~hist.next_page
        /\ hist.exit # "exception"
        /\ pc \in {"gen_done", "leaving", "closed", "returned"}

\* C10 witness: the login wait timed out and the run ended normally
C10_Witness ==
    /\ hist.login_failed
    /\ hist.exit = "normal"
    /\ pc = "closed"

Done == ret # <<>>

\* C11 (as stated): when the URL after the navigation holds /login or
\* /checkpoint, is_logged_in returns False, whatever indicators are present
C11_LoginUrlMeansLoggedOut ==
    (/\ call.fn = "is_logged_in" /\ Done
     /\ call.arg.page # NoHandle /\ call.arg.dom.goto = "ok"
     /\ (\/ Contains(call.arg.dom.url, LoginMark)
         \/ Contains(call.arg.dom.url, CheckpointMark)))
    => ret[1] = Returned(FALSE)

\* an element query that is_logged_in runs throws: a query raises and no
\* indicator before it is present
QueryRaises(indicators) ==
    \E k \in 1..Len(indicators) :
       /\ indicators[k] = "raises"
       /\ \A j \in 1..(k - 1) : indicators[j] # "present"

\* C12: is_logged_in never raises, and returns False when no indicator is
\* present (whatever the URL), when the page was never started, when the
\* navigation throws and when an element query throws
C12_FailsClosed ==
    (call.fn = "is_logged_in" /\ Done) =>
        LET a == call.arg IN
        /\ ~ret[1].raised
        /\ ret[1].value \in BOOLEAN
        /\ (\A k \in 1..4 : a.dom.indicators[k] # "present") => ~ret[1].value
        /\ a.page = NoHandle => ~ret[1].value
        /\ a.dom.goto = "raises" => ~ret[1].value
        /\ QueryRaises(a.dom.indicators) => ~ret[1].value

\* C12 witness: on a page never started, with an indicator present and a
\* later query that throws, the call has returned
C12_Witness ==
    /\ call.fn = "is_logged_in" /\ Done
    /\ call.arg.page = NoHandle
    /\ call.arg.dom.indicators = <<"present", "raises", "absent", "absent">>

\* one step of wait_for_login's loop, or a step that leaves it
WaitStep ==
    /\ pc' = "navigate" => (logged' = "True" /\ elapsed <= LoginTimeout)
    /\ logged' = "True" => pc' = "navigate"
    /\ pc' = "gen_done" => (elapsed > LoginTimeout /\ hist'.login_failed)
    /\ elapsed > LoginTimeout => pc' \in {"gen_done", "leaving"}

\* C13: wait_for_login always terminates; it returns True (the generator goes
\* on to the search) at the first poll at which is_logged_in() is true, never
\* in an iteration whose elapsed time exceeds the timeout, and returns False
\* once the elapsed time exceeds the timeout
C13_WaitForLogin ==
    /\ [](pc = "wait_login" => logged = "False")
    /\ [][pc = "wait_login" => WaitStep]_vars
    /\ (pc = "wait_login") ~> (pc # "wait_login")

\* C13 witness: wait_for_login returned True at a poll after the first
C13_Witness ==
    /\ pc = "navigate"
    /\ logged = "True"
    /\ elapsed > 0

\* the five signals of a card, each as its own check reports it
TextPositive(card) == card.html = "ok" /\ card.text
BadgePositive(card) == card.badge
FramePositive(card) == card.html = "ok" /\ card.frame
ImagePositive(card) ==
    card.enum = "ok" /\ \E k \in 1..Len(card.imgs) :
                           ~card.imgs[k].raises /\ card.imgs[k].ind
RingPositive(card) ==
    card.enum = "ok" /\ \E k \in 1..Len(card.imgs) :
                           /\ ~card.imgs[k].raises
                           /\ IsProfileThumbnail(card.imgs[k].src)
                           /\ card.imgs[k].green
AnyPositive(card) ==
    \/ TextPositive(card) \/ BadgePositive(card) \/ FramePositive(card)
    \/ ImagePositive(card) \/ RingPositive(card)

\* a read of one of the signal checks throws
SomeCheckRaises(card) ==
    \/ card.html = "raises"
    \/ card.enum = "raises"
    \/ \E k \in 1..Len(card.imgs) : card.imgs[k].raises

\* C14 (as stated): when one of the five signals is positive, detect_from_card
\* returns True, whatever the outcome of the other four
C14_AnySignalWins ==
    (call.fn = "detect_from_card" /\ Done /\ AnyPositive(call.arg))
    => ret[1] = Returned(TRUE)

\* C15 (as stated): a check that throws makes only its own signal negative:
\* the card is classified by the remaining signals, so a card whose markup
\* read or image enumeration throws and whose badge selector matches is True
C15_FailureIsLocal ==
    (call.fn = "detect_from_card" /\ Done /\ SomeCheckRaises(call.arg))
    => /\ ret[1].value = AnyPositive(call.arg)
       /\ BadgePositive(call.arg) => ret[1].value

\* a failure inside detect_green_frame: the fetch throws, the status is not
\* 200, or the decode throws
PhotoFails(photo) ==
    photo.fetch = "raises" \/ photo.status # 200 \/ photo.decode = "raises"

\* C16: detect_from_card and detect_green_frame never raise; they return a
\* boolean, and False when the fetch or the decode fails, when the markup
\* cannot be read, and when the images cannot be listed and no earlier
\* signal is positive
C16_ClassifierNeverRaises ==
    /\ (call.fn = "detect_green_frame" /\ Done) =>
          /\ ~ret[1].raised
          /\ ret[1].value \in BOOLEAN
          /\ PhotoFails(call.arg) => ~ret[1].value
    /\ (call.fn = "detect_from_card" /\ Done) =>
          /\ ~ret[1].raised
          /\ ret[1].value \in BOOLEAN
          /\ call.arg.html = "raises" => ~ret[1].value
          /\ (call.arg.enum = "raises" /\ ~AnyPositive(call.arg)) => ~ret[1].value

\* C16 witness: the classification of a card whose markup cannot be read and
\* whose images cannot be listed has returned
C16_Witness ==
    /\ call.fn = "detect_from_card" /\ Done
    /\ call.arg.html = "raises"
    /\ call.arg.enum = "raises"
    /\ call.arg.imgs = <<ImgUnreadable, ImgRing>>

\* the tokens of a text: its maximal runs of characters other than the space
Words(s) == SelectSeq(Split(s, " "), LAMBDA w : w # <<>>)

\* C17 (as stated): parse_name returns the first token and the remaining
\* tokens joined by one space, of the name without its parenthesised groups
\* and without everything from the first comma on; first has no space,
\* neither part has leading, trailing or doubled spaces; no token gives ("","")
C17_SplitName ==
    (call.fn = "parse_name" /\ Done) =>
        LET w == Words(CutAtComma(RemoveParens(call.arg)))
            r == ret[1]
        IN  /\ r.first = IF w = <<>> THEN <<>> ELSE w[1]
            /\ r.last = IF Len(w) <= 1 THEN <<>> ELSE Join(Tail(w), " ")
            /\ ~Has(r.first, " ")
            /\ Strip(r.last) = r.last
            /\ CollapseSpaces(r.last) = r.last

IsLetter(c) == c \notin {" ", "|", "-", "@"}

\* the connector w stands in s at position p as a word of its own ("@" is a
\* sign, not a word: it counts wherever it stands)
WordAt(s, p, w) ==
    /\ StandsAt(s, p, w)
    /\ \/ w = <<"@">>
       \/ /\ p = 1 \/ ~IsLetter(s[p - 1])
          /\ p + Len(w) > Len(s) \/ ~IsLetter(s[p + Len(w)])

ConnectorWordAt(s, p) == \E k \in 1..Len(Connectors) : WordAt(s, p, Connectors[k])

HasConnectorWord(s) == \E p \in 1..Len(s) : ConnectorWordAt(s, p)

HasSeparator(s) == \E p \in 1..Len(s) : s[p] \in Separators

\* C18 (as stated): a headline with no connector word and no separator gives ""
C18_NoCompany ==
    (/\ call.fn = "extract_company_from_headline" /\ Done
     /\ ~HasConnectorWord(call.arg)
     /\ ~HasSeparator(call.arg))
    => ret[1] = <<>>

RECURSIVE BeforeSeparator(_)
\* the text up to the first separator, or to the end
BeforeSeparator(s) ==
    IF s = <<>> THEN <<>>
    ELSE IF Head(s) \in Separators THEN <<>>
    ELSE <<Head(s)>> \o BeforeSeparator(Tail(s))

\* a connector word followed by white space stands at position p
ConnectorBeforeCompany(s, p) ==
    \E k \in 1..Len(Connectors) :
       WordAt(s, p, Connectors[k]) /\ SpaceRun(s, p + Len(Connectors[k])) >= 1

\* the trimmed text after the first connector word, up to the next separator
AfterConnector(s) ==
    LET p == CHOOSE p \in 1..Len(s) :
                 /\ ConnectorBeforeCompany(s, p)
                 /\ \A p2 \in 1..(p - 1) : ~ConnectorBeforeCompany(s, p2)
        k == CHOOSE k \in 1..Len(Connectors) : WordAt(s, p, Connectors[k])
    IN  Strip(BeforeSeparator(SubSeq(s, p + Len(Connectors[k]), Len(s))))

\* the trimmed text after the first separator, up to the next separator
AfterSeparator(s) ==
    LET p == CHOOSE p \in 1..Len(s) :
                 s[p] \in Separators /\ \A p2 \in 1..(p - 1) : s[p2] \notin Separators
    IN  Strip(BeforeSeparator(SubSeq(s, p + 1, Len(s))))

\* C19 (as stated): with a connector word followed by a company the result is
\* the trimmed text after the connector up to the next separator, wherever a
\* separator stands; with no connector word it is the trimmed text after the
\* first separator up to the next one.  (Texts of at most one character are
\* left aside: they are never returned.)
C19_CompanyCapture ==
    (call.fn = "extract_company_from_headline" /\ Done) =>
        LET s == call.arg IN
        /\ ((\E p \in 1..Len(s) : ConnectorBeforeCompany(s, p))
               /\ Len(AfterConnector(s)) > 1)
            => ret[1] = AfterConnector(s)
        /\ (~HasConnectorWord(s) /\ HasSeparator(s) /\ Len(AfterSeparator(s)) > 1)
            => ret[1] = AfterSeparator(s)

\* C20: the stored profile_url is the href up to its first "?": it holds no
\* "?", it is the href itself when the href has no query string, and
\* stripping it again changes nothing
C20_CanonicalUrl ==
    (call \in CardCalls /\ Done) =>
        LET href == call.arg.link[1].v
            url  == ret[1][1].profile_url
        IN  /\ ~Has(url, "?")
            /\ Len(url) <= Len(href) /\ url = SubSeq(href, 1, Len(url))
            /\ Len(url) < Len(href) => href[Len(url) + 1] = "?"
            /\ ~Has(href, "?") => url = href
            /\ BeforeQuery(url) = url
            /\ BeforeQuery(BeforeQuery(href)) = BeforeQuery(href)

\* C20 witness: a card whose href has two question marks has been parsed
C20_Witness ==
    /\ call.fn = "parse_card" /\ Done
    /\ call.arg.link[1].v = <<"a", "?", "a", "?">>
    /\ ret[1][1].profile_url = <<"a">>

\* the step in which the card loop scans a card (lines 454-477)
ScansCard ==
    /\ pc = "card"
    /\ pc' \in {"card", "yielded"}
    /\ verdict' \in {"yielded", "rejected", "invalid", "duplicate"}

\* C21 (as stated): once total_scraped has reached the session ceiling no
\* further card is scanned and no further record is yielded
C21_StopsAtCeiling ==
    [][total_scraped >= MAX_PROFILES_PER_SESSION
         => ~ScansCard /\ profiles' = profiles]_vars

\* the record parse_card gives for the card scanned in this step
Parsed == parse_card(nth_card'[1], detect_from_card(nth_card'[1]))

\* the scanned card gives a valid record with a URL not seen so far
ValidAndNew == Parsed # None /\ Parsed[1].profile_url \notin seen_urls

\* the record of the scanned card is accepted and yielded in this step
YieldsParsed ==
    /\ pc' = "yielded"
    /\ profiles' = Append(profiles, Parsed[1])
    /\ collected_count' = collected_count + 1

\* the scanned card is passed over: nothing is yielded, the loop goes on
PassesOver ==
    /\ pc' = "card"
    /\ profiles' = profiles
    /\ collected_count' = collected_count

\* C22 (as stated): without the open-to-work filter every valid record with a
\* new URL is yielded, whatever its attributes
C22_AcceptsUnconditionally ==
    [][(~cfg.open_to_work_only /\ ScansCard /\ ValidAndNew) => YieldsParsed]_vars

\* C22 (amended): without the open-to-work filter a valid record with a new
\* URL is yielded exactly when its location matches the requested one (always,
\* when no location is requested); is_open_to_work plays no part
C22_AcceptsOnLocation ==
    [][(~cfg.open_to_work_only /\ ScansCard /\ ValidAndNew) =>
          /\ location_match(Parsed[1]) => YieldsParsed
          /\ ~location_match(Parsed[1]) => PassesOver /\ verdict' = "rejected"
          /\ cfg.location = <<>> => YieldsParsed]_vars

\* C22 witness: with a location requested and no open-to-work filter, a record
\* that is not open to work has been yielded
C22_Witness ==
    /\ ~cfg.open_to_work_only
    /\ cfg.location # <<>>
    /\ verdict = "yielded"
    /\ ~profiles[Len(profiles)].is_open_to_work

\* C23: with the open-to-work filter every yielded record has is_open_to_work
\* set, and the record just yielded is the one parse_card built from the
\* scanned card with the flag detect_from_card returned for that card
C23_YieldedAreOpen ==
    cfg.open_to_work_only =>
        /\ \A a \in 1..Len(profiles) : profiles[a].is_open_to_work
        /\ verdict = "yielded" =>
              LET is_open == detect_from_card(nth_card[1])
                  profile == profiles[Len(profiles)]
              IN  /\ profile.is_open_to_work = is_open
                  /\ Some(profile) = parse_card(nth_card[1], is_open)

\* C23 witness: with the filter on, the card whose only signal is the green
\* ring of its photo has been yielded
C23_Witness ==
    /\ cfg.open_to_work_only
    /\ pc = "yielded"
    /\ nth_card = Some(CardRing)
    /\ profiles[Len(profiles)].is_open_to_work

\* a control that is visible and enabled, by the name _go_to_next_page's
\* result gives it: an enabled "next" control, or the visible page-number button
VisibleAndEnabled(control) == control \in {"enabled", "number"}

\* C24 (as stated): _go_to_next_page calls click() only on a visible and
\* enabled control, never on a hidden one or on one that carries a disabled
\* attribute, at most once, and returns True only after a click
C24_ClicksVisibleEnabledOnly ==
    (call.fn = "_go_to_next_page" /\ Done) =>
        LET r == ret[1] IN
        /\ \A k \in 1..Len(r.issued) : VisibleAndEnabled(r.issued[k])
        /\ Len(r.issued) <= 1
        /\ r.result => Len(r.issued) >= 1

\* C25 (as stated): when start() raises, no resource it acquired stays open
C25_FailedStartReleases ==
    pc = "start_failed" => \A r \in Resources : res[r] # "open"

\* the step makes no automation call and leaves the session as it is
NoAutomationCall ==
    /\ UNCHANGED <<session, action_count>>
    /\ hist' = [hist EXCEPT !.exit = hist'.exit]

\* C26: a record is handed over in the very step that accepts it, with the
\* generator suspended; while it is suspended no card is classified and no
\* automation call is made: the generator either resumes with the next card
\* when the consumer pulls, or is left behind, the session still as it was
C26_PullDriven ==
    /\ [][(ScansCard /\ profiles' # profiles) =>
             pc' = "yielded" /\ profiles' = Append(profiles, Parsed[1])]_vars
    /\ [][pc = "yielded" =>
             /\ pc' \in {"card", "leaving"}
             /\ NoAutomationCall
             /\ UNCHANGED <<profiles, nth_card, collected_count, total_scraped, seen_urls>>
                  \/ pc' = "leaving"
             /\ pc' = "card" => i' = i + 1 /\ verdict' = verdict]_vars

\* C26 witness: the consumer stopped after a record: the block is being left,
\* nothing has been closed yet
C26_Witness ==
    /\ pc = "leaving"
    /\ hist.exit = "early"
    /\ Len(profiles) >= 1
    /\ hist.close_calls = 0
    /\ res[playwright] = "open"

\* the scrolls and the clicks a returned call of a page-driving method made
ScrollsMade ==
    CASE call.fn = "_scroll_page" -> ret[1].scrolls
      [] call.fn = "_go_to_next_page" -> IF ret[1].scrolled THEN 1 ELSE 0
      [] OTHER -> 0

ClicksMade == IF call.fn = "_scroll_page" THEN 0 ELSE ret[1].clicks

\* C27 (as stated): action_count goes up by exactly one for every scroll and
\* every click: after a call on the fresh scraper it equals their number
C27_EveryInteractionCounted ==
    (call.fn \in {"_scroll_page", "_go_to_next_page", "_apply_location_filter"} /\ Done)
        => action_count = ScrollsMade + ClicksMade

\* C28: a long pause is taken in a call exactly when the call raised
\* action_count to a positive multiple of LONG_PAUSE_INTERVAL; action_count
\* never goes down
C28_LongPauseOnMultiples ==
    /\ [][ret'[1].paused <=> (/\ action_count' = action_count + 1
                              /\ action_count' > 0
                              /\ action_count' % LONG_PAUSE_INTERVAL = 0)]_vars
    /\ [][action_count' >= action_count]_vars

\* C28 witness: the second long pause has been taken
C28_Witness ==
    /\ pc = "pace"
    /\ ret # <<>> /\ ret[1].paused
    /\ action_count = 2 * LONG_PAUSE_INTERVAL

\* a chain in which every throwing strategy is replaced by one that finds nothing
Calm(chain) == [k \in 1..Len(chain) |-> IF chain[k] = Raises THEN Absent ELSE chain[k]]

CalmCard(card) ==
    [card EXCEPT !.name = Calm(@), !.headline = Calm(@), !.location = Calm(@),
                 !.link = Calm(@)]

CalmKinds(chain) ==
    [k \in 1..Len(chain) |-> IF chain[k] = "raises" THEN "absent" ELSE chain[k]]

\* C29 (as stated): for name, headline, location and link, and for the card
\* container, a strategy that throws is passed over and the next one is
\* tried: the call ends as it does when that strategy finds nothing, and no
\* exception leaves it
C29_StrategyFailureSwallowed ==
    /\ (call.fn = "parse_card" /\ Done) =>
          ret[1] = parse_card(CalmCard(call.arg), detect_from_card(call.arg))
    /\ (call.fn = "_get_profile_cards" /\ Done) =>
          /\ ~ret[1].raised
          /\ ret[1].value = get_profile_cards_call(CalmKinds(call.arg)).value

RECURSIVE FirstMatch(_)
\* the first strategy of a chain whose match count is > 0, Absent if there is none
FirstMatch(chain) ==
    IF chain = <<>> THEN Absent
    ELSE IF Head(chain).k \in {"found", "nohref"} THEN Head(chain)
    ELSE FirstMatch(Tail(chain))

RECURSIVE FirstFoundAt(_, _)
\* the place of the first container strategy with a match, from place k on; 0 if none
FirstFoundAt(chain, k) ==
    IF chain = <<>> THEN 0
    ELSE IF Head(chain) = "found" THEN k
    ELSE FirstFoundAt(Tail(chain), k + 1)

\* C30 (as stated): each field of the parsed card comes from the first
\* strategy of its chain that matches, later strategies playing no part, and
\* is empty when none matches; the card list comes from the first container
\* strategy that matches
C30_FirstMatchWins ==
    /\ (call.fn = "parse_card" /\ Done) =>
          LET c == call.arg
              full_name   == Strip(FirstMatch(c.name).v)
              headline    == Strip(FirstMatch(c.headline).v)
              location    == Strip(FirstMatch(c.location).v)
              profile_url == BeforeQuery(FirstMatch(c.link).v)
          IN  IF ret[1] = None
              THEN full_name = <<>> /\ profile_url = <<>>
              ELSE /\ ret[1][1].full_name = full_name
                   /\ ret[1][1].headline = headline
                   /\ ret[1][1].location = location
                   /\ ret[1][1].profile_url = profile_url
    /\ (call.fn = "_get_profile_cards" /\ Done /\ ~ret[1].raised) =>
          ret[1].value = FirstFoundAt(call.arg, 1)

\* the classification of the card scanned in this step raised (inside
\* detect_from_card, whose except clause turns it into False)
ClassificationRaised == detect_from_card_try(nth_card'[1]).raised

C32_NoCardsEndsTraversal ==
    /\ [][(pc = "discover" /\ pc' # "leaving" /\ card_count' = 0) =>
             /\ pc' = "gen_done"
             /\ profiles' = profiles
             /\ nth_card' = nth_card
             /\ hist' = hist]_vars
    /\ [][(pc = "gen_done" /\ hist'.exit # "interrupt") =>
             /\ pc' = "leaving"
             /\ hist'.exit = "normal"
             /\ hist'.next_page = hist.next_page
             /\ profiles' = profiles]_vars

\* C32 witness: after a record was yielded, a later page shows no card and the
\* generator has returned
C32_Witness ==
    /\ pc = "gen_done"
    /\ card_count = 0
    /\ profiles # <<>>
    /\ page_num = 2

\* C33: when launch_persistent_context fails for another reason than a locked
\* profile, start() enters its except clause (which logs the failure, lines
\* 76-77, and launches the fallback); when start() has returned the scraper
\* holds a page of an open context, and after such a failure it is the page of
\* the ephemeral context of the ephemeral browser
C33_FallsBackToEphemeral ==
    /\ (pc # "new" /\ hist.launch = "error") => hist.fallback_attempts = 1
    /\ pc = "entered" =>
          /\ page \in {"ppage", "epage"}
          /\ res[context] = "open"
          /\ hist.exit = "none"
    /\ (pc = "entered" /\ hist.launch = "error") =>
          /\ browser = "browser" /\ res["browser"] = "open"
          /\ context = "ectx" /\ res["ectx"] = "open"
          /\ page = "epage"

\* C33 witness: start() has returned after a failed persistent launch
C33_Witness ==
    /\ pc = "entered"
    /\ hist.launch = "error"
    /\ hist.fallback_attempts = 1
    /\ page = "epage"

\* the image fetches a finished detect_from_card call issued
Fetched == ret[2]

\* C34: detect_from_card fetches an image only if its src is not empty, holds
\* "profile" or "media.licdn", and holds "100_100", and only for a card whose
\* markup was read and gave no text indicator, no badge-selector match and no
\* photo-frame indicator
C34_FetchOnlyThumbnails ==
    (call.fn = "detect_from_card" /\ Done) =>
        \A k \in 1..Len(Fetched) :
            LET src == Fetched[k] IN
            /\ Len(src) > 0
            /\ \E a \in 1..Len(src) : src[a] \in {"profile", "media.licdn"}
            /\ \E a \in 1..Len(src) : src[a] = "100_100"
            /\ \E n \in 1..Len(call.arg.imgs) : call.arg.imgs[n].src = src
            /\ call.arg.html = "ok"
            /\ ~TextPositive(call.arg)
            /\ ~BadgePositive(call.arg)
            /\ ~FramePositive(call.arg)

\* C34 witness: a call has fetched the second image of a card: the first
\* one's src has a marker but not the size token
C34_Witness ==
    /\ call.fn = "detect_from_card" /\ Done
    /\ Len(call.arg.imgs) = 2
    /\ call.arg.imgs[1].src = <<"profile", "x">>
    /\ Fetched = <<call.arg.imgs[2].src>>
    /\ ret[1] = Returned(TRUE)

\* the URL of the record parse_card gives for the card scanned in this step
ParsedUrl == Parsed[1].profile_url

\* C35: total_scraped is the number of URLs in seen_urls and collected_count
\* does not exceed it; the URL of a rejected record is in seen_urls after the
\* step that rejects it; and a card whose record has a URL of seen_urls is
\* passed over as a duplicate, with nothing counted
C35_CountsMatchSeen ==
    /\ [](total_scraped = Cardinality(seen_urls) /\ collected_count <= total_scraped)
    /\ [][(ScansCard /\ verdict' = "rejected") =>
             /\ ParsedUrl \notin seen_urls
             /\ seen_urls' = seen_urls \cup {ParsedUrl}
             /\ total_scraped' = total_scraped + 1]_vars
    /\ [][(ScansCard /\ Parsed # None /\ ParsedUrl \in seen_urls) =>
             /\ PassesOver
             /\ verdict' = "duplicate"
             /\ total_scraped' = total_scraped
             /\ seen_urls' = seen_urls]_vars

\* C35 witness: on the second page the card of a record that was rejected on
\* the first page has been passed over as a duplicate
C35_Witness ==
    /\ cfg.open_to_work_only
    /\ page_num = 2
    /\ verdict = "duplicate"
    /\ nth_card = Some(CardPlain)
    /\ profiles = <<>>
    /\ total_scraped = 1
    /\ seen_urls = {CardOutcome[CardPlain][1].profile_url}

\* the records of main's list that have no profile URL
NameOnly == {a \in 1..Len(profiles) : profiles[a].profile_url = <<>>}

\* the card scanned in this step gives a valid record without a profile URL
ParsedNameOnly == Parsed # None /\ ParsedUrl = <<>>

\* C36: at most one yielded record has an empty profile_url; a valid record
\* with an empty profile_url is counted only while the empty URL is not in
\* seen_urls, which then holds it, and is passed over as a duplicate afterwards
C36_OneNameOnlyRecord ==
    /\ [](Cardinality(NameOnly) <= 1)
    /\ [][(ScansCard /\ ParsedNameOnly /\ <<>> \notin seen_urls) =>
             /\ verdict' \in {"yielded", "rejected"}
             /\ total_scraped' = total_scraped + 1
             /\ <<>> \in seen_urls']_vars
    /\ [][(ScansCard /\ ParsedNameOnly /\ <<>> \in seen_urls) =>
             /\ PassesOver
             /\ verdict' = "duplicate"
             /\ total_scraped' = total_scraped
             /\ seen_urls' = seen_urls]_vars

\* C36 witness: after the name-only record "C" was yielded, the card of
\* another person without a link, "B", has been passed over as a duplicate
C36_Witness ==
    /\ verdict = "duplicate"
    /\ nth_card = Some(CardBroken)
    /\ CardOutcome[CardBroken][1].full_name = <<"B">>
    /\ Len(profiles) = 1
    /\ profiles[1].full_name = <<"C">>
    /\ profiles[1].profile_url = <<>>

\* the text a occurs in the text b
Within(a, b) ==
    \E k \in 1..(Len(b) + 1) :
        \A j \in 1..Len(a) : k + j - 1 <= Len(b) /\ b[k + j - 1] = a[j]

\* C37: with a search location the location test accepts exactly when, lower
\* case, the search location contains the record's location or the record's
\* location contains the search location; a record with an empty location is
\* accepted, and without a search location every record is accepted
C37_LocationCheck ==
    (call.fn = "location_match" /\ Done) =>
        LET search == Lower(call.arg.location)
            loc    == Lower(call.arg.profile_location)
        IN  /\ call.arg.location # <<>> =>
                  (ret[1] <=> (Within(loc, search) \/ Within(search, loc)))
            /\ call.arg.profile_location = <<>> => ret[1]
            /\ call.arg.location = <<>> => ret[1]

\* C37 witness: the test has accepted a record whose location is a part of
\* the search location, in another case
C37_Witness ==
    /\ call.fn = "location_match" /\ Done
    /\ call.arg.location = <<"P", "a">>
    /\ call.arg.profile_location = <<"p">>
    /\ ret[1]

\* the with block is left in this step by an exception of the traversal or by
\* a KeyboardInterrupt
TraversalFails ==
    /\ pc # "leaving"
    /\ pc' = "leaving"
    /\ hist'.exit \in {"exception", "interrupt"}

\* the handles the scraper holds
Held == {context, browser, playwright} \ {NoHandle}

=============================================================================
